---- MODULE Spec2Model ----
(***************************************************************************)
(* Model of github.com/radim/queries: the parameter resolver (NewQuery,    *)
(* Query.Prepare), the query store loader (LoadFromFile,                   *)
(* loadQueriesFromFile) and the block scanner (Scanner.Run).               *)
(*                                                                         *)
(* A text is a sequence of one-character strings.  A parameter name is a   *)
(* text.  A Go map is a function; ranging over a Go map visits its keys in *)
(* an order the runtime chooses, so every loop over a map is modelled with *)
(* an arbitrary permutation of the keys.                                   *)
(***************************************************************************)
EXTENDS Integers, Sequences, FiniteSets, TLC

VARIABLES raw, results, cells, args, components,
          lines, scanned, queries, before, err, op

vars == <<raw, results, cells, args, components,
          lines, scanned, queries, before, err, op>>

(***************************************************************************)
(* Bounds of the model.                                                    *)
(***************************************************************************)
\* number of text pieces an input query text is built from
MaxPieces == 3
\* number of lines of a source
MaxLines == 3

(***************************************************************************)
(* Character classes of the regular expressions.                           *)
(***************************************************************************)
Letters ==
    {"a","b","c","d","e","f","g","h","i","j","k","l","m",
     "n","o","p","q","r","s","t","u","v","w","x","y","z",
     "A","B","C","D","E","F","G","H","I","J","K","L","M",
     "N","O","P","Q","R","S","T","U","V","W","X","Y","Z"}

Digits == <<"0","1","2","3","4","5","6","7","8","9">>

\* [A-Za-z]
IsLetter(c) == c \in Letters

\* [A-Za-z0-9_]
IsWordChar(c) == c \in Letters \/ c = "_" \/ \E d \in 1..10 : Digits[d] = c

\* a single or a double quote
IsQuote(c) == c = "'" \/ c = "\""

(***************************************************************************)
(* psqlVarRE: a character other than a colon, a colon, an optional single  *)
(* or double quote, the submatch [A-Za-z][A-Za-z0-9_]*, an optional quote. *)
(***************************************************************************)
NoMatch == [from |-> 0, to |-> 0, nameFrom |-> 0, nameTo |-> 0]

RECURSIVE IdentEnd(_, _)
\* the index just past the longest run of [A-Za-z0-9_] of s that starts at i
IdentEnd(s, i) ==
    IF i <= Len(s) /\ IsWordChar(s[i]) THEN IdentEnd(s, i + 1) ELSE i

\* the match of psqlVarRE that starts at index i of s, NoMatch if there is
\* none: s[from..to] is the whole match, s[nameFrom..nameTo] the submatch
psqlVarRE(s, i) ==
    IF i + 1 > Len(s) THEN NoMatch
    ELSE IF s[i] = ":" \/ s[i + 1] # ":" THEN NoMatch
    ELSE LET j == IF i + 2 <= Len(s) /\ IsQuote(s[i + 2]) THEN i + 3 ELSE i + 2
         IN  IF j <= Len(s) /\ IsLetter(s[j])
             THEN LET e == IdentEnd(s, j + 1)
                      f == IF e <= Len(s) /\ IsQuote(s[e]) THEN e + 1 ELSE e
                  IN  [from |-> i, to |-> f - 1, nameFrom |-> j, nameTo |-> e - 1]
             ELSE NoMatch

RECURSIVE FindAllFrom(_, _)
FindAllFrom(s, i) ==
    IF i > Len(s) THEN <<>>
    ELSE LET m == psqlVarRE(s, i)
         IN  IF m.from = 0 THEN FindAllFrom(s, i + 1)
             ELSE <<m>> \o FindAllFrom(s, m.to + 1)

\* r.FindAllStringSubmatch(query, -1): the successive non-overlapping
\* matches, leftmost first
FindAllStringSubmatch(s) == FindAllFrom(s, 1)

\* match[1]
Variable(s, m) == SubSeq(s, m.nameFrom, m.nameTo)

(***************************************************************************)
(* Reserved names.                                                         *)
(***************************************************************************)
reservedNames == << <<"M","I">>, <<"S","S">> >>

isReservedName(name) ==
    \E i \in 1..Len(reservedNames) : name = reservedNames[i]

(***************************************************************************)
(* NewQuery, first loop: the ordinal mapping.                              *)
(***************************************************************************)
EmptyMap == [n \in {} |-> 0]

Put(m, k, v) == [n \in DOMAIN m \cup {k} |-> IF n = k THEN v ELSE m[n]]

RECURSIVE AssignEveryMatch(_, _, _, _)
AssignEveryMatch(s, matches, mapping, position) ==
    IF matches = <<>> THEN mapping
    ELSE LET variable == Variable(s, Head(matches))
         IN  IF isReservedName(variable)
             THEN AssignEveryMatch(s, Tail(matches), mapping, position)
             ELSE AssignEveryMatch(s, Tail(matches),
                                   Put(mapping, variable, position), position + 1)

RECURSIVE AssignOrdinals(_, _, _, _)
AssignOrdinals(s, matches, mapping, position) ==
    IF matches = <<>> THEN mapping
    ELSE LET variable == Variable(s, Head(matches))
         IN  IF isReservedName(variable)
             THEN AssignOrdinals(s, Tail(matches), mapping, position)
             ELSE IF variable \in DOMAIN mapping
             THEN AssignOrdinals(s, Tail(matches), mapping, position)
             ELSE AssignOrdinals(s, Tail(matches),
                                 Put(mapping, variable, position), position + 1)

(***************************************************************************)
(* NewQuery, second loop: the rewrite.  Every character of the text being  *)
(* rewritten carries the span lo..hi of the input text it derives from     *)
(* (history information: the text the code holds is the ch projection).    *)
(***************************************************************************)
Cell(c, lo, hi) == [ch |-> c, lo |-> lo, hi |-> hi]

CellsOf(s) == [i \in 1..Len(s) |-> Cell(s[i], i, i)]

TextOf(t) == [i \in 1..Len(t) |-> t[i].ch]

RECURSIVE Decimal(_)
\* %d
Decimal(n) ==
    IF n < 10 THEN <<Digits[n + 1]>>
    ELSE Decimal(n \div 10) \o <<Digits[(n % 10) + 1]>>

\* Sprintf of $%d
Placeholder(ord) == <<"$">> \o Decimal(ord)

\* the match of the rewrite expression (a colon, an optional quote, the
\* name, an optional quote) that starts at index i of t: the index of its
\* last character, 0 if there is none
NameRE(t, name, i) ==
    IF t[i].ch # ":" THEN 0
    ELSE LET j == IF i + 1 <= Len(t) /\ IsQuote(t[i + 1].ch) THEN i + 2 ELSE i + 1
             e == j + Len(name) - 1
         IN  IF e <= Len(t) /\ \A k \in 1..Len(name) : t[j + k - 1].ch = name[k]
             THEN IF e + 1 <= Len(t) /\ IsQuote(t[e + 1].ch) THEN e + 1 ELSE e
             ELSE 0

RECURSIVE ReplaceFrom(_, _, _, _)
ReplaceFrom(t, name, repl, i) ==
    IF i > Len(t) THEN <<>>
    ELSE LET e == NameRE(t, name, i)
         IN  IF e = 0 THEN <<t[i]>> \o ReplaceFrom(t, name, repl, i + 1)
             ELSE [k \in 1..Len(repl) |-> Cell(repl[k], t[i].lo, t[e].hi)]
                  \o ReplaceFrom(t, name, repl, e + 1)

\* r.ReplaceAllLiteralString(query, repl), r the rewrite expression of name
ReplaceAllLiteralString(t, name, repl) == ReplaceFrom(t, name, repl, 1)

RECURSIVE Rewrite(_, _, _)
\* for name, ord := range mapping, the names visited in the given order
Rewrite(t, mapping, order) ==
    IF order = <<>> THEN t
    ELSE Rewrite(ReplaceAllLiteralString(t, Head(order),
                                         Placeholder(mapping[Head(order)])),
                 mapping, Tail(order))

\* the orders in which a range over a map with the keys S may visit them
RangeOrders(S) ==
    {o \in [1..Cardinality(S) -> S] : \A i, j \in DOMAIN o : i # j => o[i] # o[j]}

\* the ordinal mapping NewQuery builds for the text query
MappingOf(query) ==
    AssignOrdinals(query, FindAllStringSubmatch(query), EmptyMap, 1)

\* NewQuery when the rewrite loop visits the names in the given order: the
\* Query it returns and the history of its OrdinalQuery
Resolve(query, order) ==
    LET mapping == MappingOf(query)
        t == Rewrite(CellsOf(query), mapping, order)
    IN  [query |-> [Raw          |-> query,
                    OrdinalQuery |-> TextOf(t),
                    Mapping      |-> mapping],
         cells |-> t]

\* the Query NewQuery returns when the rewrite loop visits the names in the
\* given order
NewQueryIn(query, order) == Resolve(query, order).query

(***************************************************************************)
(* Query.Prepare.                                                          *)
(***************************************************************************)
\* the value of a missing map key, and of an unset slice element
Nil == "nil"

\* args[name]
Lookup(a, name) == IF name \in DOMAIN a THEN a[name] ELSE Nil

\* the list left as the range over q.Mapping built it
Unsorted(params) == params

RECURSIVE InsertByOrd(_, _)
InsertByOrd(p, s) ==
    IF s = <<>> THEN <<p>>
    ELSE IF p.Ord < Head(s).Ord THEN <<p>> \o s
    ELSE <<Head(s)>> \o InsertByOrd(p, Tail(s))

RECURSIVE SortedFrom(_, _)
SortedFrom(params, acc) ==
    IF params = <<>> THEN acc
    ELSE SortedFrom(Tail(params), InsertByOrd(Head(params), acc))

\* sort.Slice(params, less) with less comparing Ord
SortByOrd(params) == SortedFrom(params, <<>>)

\* the list Prepare returns when the range over q.Mapping visits the names
\* in the given order
PrepareIn(q, a, order) ==
    LET params == SortByOrd([i \in 1..Len(order) |->
                                [Name |-> order[i], Ord |-> q.Mapping[order[i]]]])
    IN  [i \in 1..Cardinality(DOMAIN q.Mapping) |->
            IF i <= Len(params) THEN Lookup(a, params[i].Name) ELSE Nil]

(***************************************************************************)
(* Inputs.                                                                 *)
(***************************************************************************)
\* the pieces the input query texts are built from
Pieces ==
    { <<" ">>, <<":">>, <<"'">>, <<"a">>, <<"b">>,
      <<" ", ":", "a">>, <<" ", ":", "b">>, <<" ", ":", "a", "b">>,
      <<":", ":", "a">>,
      <<" ", ":", "M", "I">>, <<" ", ":", "S", "S">>, <<" ", ":", "M">> }

\* the pieces the texts given to Prepare's queries are built from
ParamPieces ==
    { <<" ">>, <<" ", ":", "a">>, <<" ", ":", "b">>, <<" ", ":", "a", "b">>,
      <<":", ":", "a">>, <<" ", ":", "M", "I">> }

RECURSIVE Texts(_, _)
\* the texts made of at most n pieces of P
Texts(P, n) ==
    IF n = 0 THEN {<<>>}
    ELSE LET T == Texts(P, n - 1) IN T \cup {t \o p : t \in T, p \in P}

\* the values a caller passes
ArgValues == {"5", "Ann"}

\* a name no query text uses
ExtraNames == {<<"z">>}

(***************************************************************************)
(* The resolver as a state machine: raw is the text given to NewQuery,     *)
(* results the Query values its last two runs on raw returned, cells the   *)
(* history of the last result's OrdinalQuery, args and components the      *)
(* argument and the result of the Prepare called on the last Query (none   *)
(* yet when op is not Prepare).                                            *)
(***************************************************************************)
NoStore ==
    /\ lines = <<>>
    /\ scanned = EmptyMap
    /\ queries = EmptyMap
    /\ before = EmptyMap
    /\ err = "none"

NoResolver ==
    /\ raw = <<>>
    /\ results = <<>>
    /\ cells = <<>>
    /\ args = EmptyMap
    /\ components = <<>>

Init ==
    /\ raw \in Texts(Pieces, MaxPieces)
    /\ results = <<>>
    /\ cells = <<>>
    /\ args = EmptyMap
    /\ components = <<>>
    /\ op = "init"
    /\ NoStore

InitPrepare ==
    /\ raw \in Texts(ParamPieces, MaxPieces)
    /\ results = <<>>
    /\ cells = <<>>
    /\ args = EmptyMap
    /\ components = <<>>
    /\ op = "init"
    /\ NoStore

\* the last Query built
Last == results[Len(results)]

\* the results of the last two runs, after a run that returned q
Keep(rs, q) == IF rs = <<>> THEN <<q>> ELSE <<rs[Len(rs)], q>>

NewQuery ==
    /\ \E order \in RangeOrders(DOMAIN MappingOf(raw)) :
          LET r == Resolve(raw, order)
          IN  /\ results' = Keep(results, r.query)
              /\ cells' = r.cells
    /\ args' = EmptyMap
    /\ components' = <<>>
    /\ op' = "NewQuery"
    /\ UNCHANGED <<raw, lines, scanned, queries, before, err>>

\* Prepare reads the Query and changes nothing of it: one call on each
\* Query built shows every outcome
Prepare ==
    /\ op = "NewQuery"
    /\ \E dom \in SUBSET (DOMAIN Last.Mapping \cup ExtraNames) :
       \E a \in [dom -> ArgValues] :
       \E order \in RangeOrders(DOMAIN Last.Mapping) :
          /\ args' = a
          /\ components' = PrepareIn(Last, a, order)
    /\ op' = "Prepare"
    /\ UNCHANGED <<raw, results, cells, lines, scanned, queries, before, err>>

Next == NewQuery

Spec == Init /\ [][Next]_vars

\* a Query is built once and Prepare is called on it
NextPrepare == (op = "init" /\ NewQuery) \/ Prepare

SpecPrepare == InitPrepare /\ [][NextPrepare]_vars

(***************************************************************************)
(* The block scanner, Scanner.Run.  A line is a text.                      *)
(***************************************************************************)
IsSpace(c) == c = " " \/ c = "\t"

RECURSIVE SkipSpaces(_, _)
\* the index of the first character of s at or after i that is no whitespace
SkipSpaces(s, i) ==
    IF i <= Len(s) /\ IsSpace(s[i]) THEN SkipSpaces(s, i + 1) ELSE i

RECURSIVE TokenEnd(_, _)
\* the index just past the longest run of non-whitespace of s that starts at i
TokenEnd(s, i) ==
    IF i <= Len(s) /\ ~IsSpace(s[i]) THEN TokenEnd(s, i + 1) ELSE i

RECURSIVE TrimRight(_)
TrimRight(s) ==
    IF s # <<>> /\ IsSpace(s[Len(s)]) THEN TrimRight(SubSeq(s, 1, Len(s) - 1))
    ELSE s

\* the line without its leading and trailing whitespace
Trim(s) == TrimRight(SubSeq(s, SkipSpaces(s, 1), Len(s)))

\* the identifier a header line declares: the line, trimmed, is the comment
\* marker, the token name: and a run of non-whitespace; the empty text when
\* the line is no header
HeaderName(line) ==
    LET t == Trim(line)
    IN  IF Len(t) >= 2 /\ t[1] = "-" /\ t[2] = "-"
        THEN LET i == SkipSpaces(t, 3)
             IN  IF i + 4 <= Len(t) /\ SubSeq(t, i, i + 4) = <<"n", "a", "m", "e", ":">>
                 THEN LET j == SkipSpaces(t, i + 5)
                      IN  SubSeq(t, j, TokenEnd(t, j) - 1)
                 ELSE <<>>
        ELSE <<>>

IsHeader(line) == HeaderName(line) # <<>>

RECURSIVE Join(_)
\* the lines joined with a newline, none added at the end
Join(buf) ==
    IF buf = <<>> THEN <<>>
    ELSE IF Len(buf) = 1 THEN buf[1]
    ELSE buf[1] \o <<"\n">> \o Join(Tail(buf))

\* the first block declaring a name is the one kept
FinalizeFirst(out, name, buf) ==
    IF name \in DOMAIN out THEN out ELSE Put(out, name, Join(buf))

\* insert name -> joined text into the result, over an earlier entry
Finalize(out, name, buf) == Put(out, name, Join(buf))

RECURSIVE ScanFrom(_, _, _, _, _)
\* one pass over the lines ls with the open block (isOpen, name, buf)
ScanFrom(ls, isOpen, name, buf, out) ==
    IF ls = <<>> THEN IF isOpen THEN Finalize(out, name, buf) ELSE out
    ELSE IF IsHeader(Head(ls))
    THEN ScanFrom(Tail(ls), TRUE, HeaderName(Head(ls)), <<>>,
                  IF isOpen THEN Finalize(out, name, buf) ELSE out)
    ELSE IF isOpen
    THEN ScanFrom(Tail(ls), TRUE, name, Append(buf, Head(ls)), out)
    ELSE ScanFrom(Tail(ls), FALSE, name, buf, out)

\* scanner.Run: the mapping from block name to block text
ScannerRun(ls) == ScanFrom(ls, FALSE, <<>>, <<>>, EmptyMap)

(***************************************************************************)
(* The query store: LoadFromFile and loadQueriesFromFile.                  *)
(***************************************************************************)
\* the Query values NewQuery may return for a text
NewQueryResults(query) ==
    {NewQueryIn(query, o) : o \in RangeOrders(DOMAIN MappingOf(query))}

RECURSIVE InsertAll(_, _, _)
\* the loop of loadQueriesFromFile visiting the names in the given order,
\* built[name] being NewQuery of the block's text: the store and the error
\* it ends with
InsertAll(store, built, order) ==
    IF order = <<>> THEN [queries |-> store, err |-> "nil"]
    ELSE IF Head(order) \in DOMAIN store
    THEN [queries |-> store, err |-> "exists"]
    ELSE InsertAll(Put(store, Head(order), built[Head(order)]), built, Tail(order))

\* the outcomes of loadQueriesFromFile on a source with the lines ls
loadQueriesFromFile(store, ls) ==
    LET newQueries == ScannerRun(ls)
        names == DOMAIN newQueries
        all == UNION {NewQueryResults(newQueries[n]) : n \in names}
    IN  {InsertAll(store, built, order) :
            built \in {f \in [names -> all] :
                          \A n \in names : f[n] \in NewQueryResults(newQueries[n])},
            order \in RangeOrders(names)}

(***************************************************************************)
(* Inputs of the scanner and of the store.                                 *)
(***************************************************************************)
Header(name) == <<"-", "-", " ", "n", "a", "m", "e", ":", " ">> \o name

\* the lines the scanner is given
ScanLines ==
    { Header(<<"q", "1">>), Header(<<"q", "2">>),
      <<" ", " ">> \o Header(<<"q", "1">>) \o <<" ">>,
      <<"-", "-", " ", "n", "a", "m", "e", ":">>,
      <<"1">>, <<" ", ":", "a">>, <<>> }

\* the lines of the sources loaded into the store
SourceLines ==
    { Header(<<"q", "1">>), Header(<<"q", "2">>), <<" ", ":", "a">> }

\* the sequences of at most n lines of L
LineSeqs(L, n) == UNION {[1..k -> L] : k \in 0..n}

(***************************************************************************)
(* The scanner and the store as state machines: lines is the source last   *)
(* scanned or loaded, scanned the mapping Scanner.Run returned, queries    *)
(* the store's registry, before the registry when the last load began,     *)
(* err what the last load returned.                                        *)
(***************************************************************************)
InitScan ==
    /\ lines \in LineSeqs(ScanLines, MaxLines)
    /\ scanned = EmptyMap
    /\ queries = EmptyMap
    /\ before = EmptyMap
    /\ err = "none"
    /\ op = "init"
    /\ NoResolver

Run ==
    /\ op = "init"
    /\ scanned' = ScannerRun(lines)
    /\ op' = "Run"
    /\ UNCHANGED <<raw, results, cells, args, components, lines, queries, before, err>>

SpecScan == InitScan /\ [][Run]_vars

\* NewQueryStore
InitStore ==
    /\ lines = <<>>
    /\ scanned = EmptyMap
    /\ queries = EmptyMap
    /\ before = EmptyMap
    /\ err = "none"
    /\ op = "init"
    /\ NoResolver

LoadFromFile ==
    /\ \E ls \in LineSeqs(SourceLines, MaxLines) :
          /\ lines' = ls
          /\ before' = queries
          /\ \/ /\ err' = "open"
                /\ queries' = queries
             \/ \E out \in loadQueriesFromFile(queries, ls) :
                   /\ err' = out.err
                   /\ queries' = out.queries
    /\ op' = "LoadFromFile"
    /\ UNCHANGED <<raw, results, cells, args, components, scanned>>

SpecStore == InitStore /\ [][LoadFromFile]_vars

(***************************************************************************)
(* Properties of the resolver.                                             *)
(***************************************************************************)
\* the discovered occurrences of parameters in raw
Found == FindAllStringSubmatch(raw)

\* the name of the i-th discovered occurrence
FoundName(i) == Variable(raw, Found[i])

\* the characters of raw from lo to hi were replaced, as a whole, by repl
WholeReplaced(t, lo, hi, repl) ==
    \E i \in 1..Len(t) :
       /\ i + Len(repl) - 1 <= Len(t)
       /\ \A k \in 1..Len(repl) : t[i + k - 1] = Cell(repl[k], lo, hi)
       /\ \A j \in 1..Len(t) :
             (t[j].lo <= hi /\ t[j].hi >= lo) => j \in i..(i + Len(repl) - 1)

\* the characters of raw from lo to hi are in t as they were
Untouched(t, lo, hi) ==
    \A p \in lo..hi : \E j \in 1..Len(t) : t[j] = Cell(raw[p], p, p)

\* x is a proper prefix of y
ProperPrefix(x, y) == Len(x) < Len(y) /\ SubSeq(y, 1, Len(x)) = x

\* C1: the mapping of every Query NewQuery returns has one entry per
\* discovered name that is not reserved, its ordinals are exactly 1..k for
\* the k such names, and a name has the smaller ordinal exactly when its
\* first discovered occurrence is the one further left.
C1_OrdinalsFollowFirstOccurrence ==
    results # <<>> =>
       LET found == Found
           name(i) == Variable(raw, found[i])
           eligible == {name(i) : i \in 1..Len(found)}
                          \ {<<"M", "I">>, <<"S", "S">>}
           firstAt(n) ==
               found[CHOOSE k \in 1..Len(found) :
                        name(k) = n /\ \A j \in 1..(k - 1) : name(j) # n].nameFrom
       IN  \A r \in 1..Len(results) :
              LET m == results[r].Mapping
              IN  /\ DOMAIN m = eligible
                  /\ {m[n] : n \in DOMAIN m} = 1..Cardinality(eligible)
                  /\ \A x, y \in DOMAIN m :
                        m[x] < m[y] <=> firstAt(x) < firstAt(y)

\* C1's case: b, then a, then b again: b has ordinal 1 and a ordinal 2
C1_Witness ==
    /\ raw = <<" ", ":", "b", " ", ":", "a", " ", ":", "b">>
    /\ results # <<>>
    /\ Last.Mapping[<<"b">>] = 1
    /\ Last.Mapping[<<"a">>] = 2

\* C3: Prepare returns a list as long as the mapping whose element at
\* index ordinal-1 (from 0; ordinal, from 1) is the caller's value of that
\* name, nil when the caller gave none, whatever other names the caller
\* gave and whatever the order the maps are ranged over.
C3_PrepareInOrdinalOrder ==
    op = "Prepare" =>
       /\ Len(components) = Cardinality(DOMAIN Last.Mapping)
       /\ \A n \in DOMAIN Last.Mapping :
             components[Last.Mapping[n]] =
                IF n \in DOMAIN args THEN args[n] ELSE Nil

\* C3's case: two parameters, the caller gives the first and a name the
\* query does not have
C3_Witness ==
    /\ op = "Prepare"
    /\ raw = <<" ", ":", "a", " ", ":", "b">>
    /\ DOMAIN args = {<<"a">>, <<"z">>}
    /\ args[<<"a">>] = "5"
    /\ components = <<"5", Nil>>

\* the characters of raw the i-th discovered occurrence's placeholder takes:
\* the match without the character before the colon
PlaceholderFrom(i) == Found[i].from + 1

PlaceholderTo(i) == Found[i].to

\* C2: every discovered occurrence of a name of the mapping is rewritten,
\* as a whole, to the positional placeholder of that name's ordinal, no
\* placeholder of a name of the mapping is left in OrdinalQuery, and Raw
\* is the input text.
C2_EveryOccurrenceRewritten ==
    results # <<>> =>
       /\ Last.Raw = raw
       /\ \A i \in 1..Len(Found) :
             FoundName(i) \in DOMAIN Last.Mapping =>
                WholeReplaced(cells, PlaceholderFrom(i), PlaceholderTo(i),
                              Placeholder(Last.Mapping[FoundName(i)]))
       /\ \A n \in DOMAIN Last.Mapping :
             \A i \in 1..Len(cells) : NameRE(cells, n, i) = 0

\* C5: when one name of the mapping is a proper prefix of another, every
\* discovered occurrence of the longer name is replaced as a whole by the
\* longer name's own placeholder.
C5_LongerNameReplacedWhole ==
    results # <<>> =>
       \A x, y \in DOMAIN Last.Mapping :
          ProperPrefix(x, y) =>
             \A i \in 1..Len(Found) :
                FoundName(i) = y =>
                   WholeReplaced(cells, PlaceholderFrom(i), PlaceholderTo(i),
                                 Placeholder(Last.Mapping[y]))

\* an identifier starts at i + 2 right after a double colon at i, i + 1
CastAt(i) ==
    /\ i + 2 <= Len(raw)
    /\ raw[i] = ":"
    /\ raw[i + 1] = ":"
    /\ IsLetter(raw[i + 2])

\* C6: an identifier right after a double colon is no discovered
\* occurrence of a parameter, and the double colon and the identifier are
\* in OrdinalQuery as they were in raw.
C6_TypeCastKept ==
    results # <<>> =>
       \A i \in 1..Len(raw) :
          CastAt(i) =>
             /\ \A k \in 1..Len(Found) : Found[k].nameFrom # i + 2
             /\ Untouched(cells, i, IdentEnd(raw, i + 2) - 1)

\* a colon at i, an optional quote, and the identifier MI or SS
ReservedTokenAt(i) ==
    /\ raw[i] = ":"
    /\ LET j == IF i + 1 <= Len(raw) /\ IsQuote(raw[i + 1]) THEN i + 2 ELSE i + 1
       IN  /\ j <= Len(raw)
           /\ IsLetter(raw[j])
           /\ SubSeq(raw, j, IdentEnd(raw, j) - 1) \in {<<"M", "I">>, <<"S", "S">>}

\* the last character of the reserved token at i
ReservedTokenTo(i) ==
    IdentEnd(raw, IF IsQuote(raw[i + 1]) THEN i + 2 ELSE i + 1) - 1

\* names isReservedName is asked about
ProbeNames ==
    { <<>>, <<"M">>, <<"I">>, <<"S">>, <<"M", "I">>, <<"S", "S">>,
      <<"I", "M">>, <<"M", "S">>, <<"m", "i">>, <<"s", "s">>,
      <<"M", "I", "S">>, <<"S", "S", "S">> }

\* C7: MI and SS are no keys of the mapping, the ordinals of the other
\* names are exactly 1..N, every :MI and :SS token of raw is in
\* OrdinalQuery as it was, and isReservedName holds of MI and SS alone.
C7_ReservedNamesUntouched ==
    results # <<>> =>
       /\ <<"M", "I">> \notin DOMAIN Last.Mapping
       /\ <<"S", "S">> \notin DOMAIN Last.Mapping
       /\ {Last.Mapping[n] : n \in DOMAIN Last.Mapping}
             = 1..Cardinality(DOMAIN Last.Mapping)
       /\ \A i \in 1..Len(raw) :
             ReservedTokenAt(i) => Untouched(cells, i, ReservedTokenTo(i))
       /\ \A n \in ProbeNames :
             isReservedName(n) <=> n \in {<<"M", "I">>, <<"S", "S">>}

\* C10: two runs of NewQuery on the same text return the same Query.
C10_SameResultEveryRun ==
    Len(results) = 2 => results[1] = results[2]

(***************************************************************************)
(* Properties of the scanner and of the store.                             *)
(***************************************************************************)
\* the indices of the header lines of ls
Headers(ls) == {i \in 1..Len(ls) : IsHeader(ls[i])}

\* the index of the first header line of ls after line i, Len(ls) + 1 if
\* there is none
NextHeader(ls, i) ==
    IF \E j \in Headers(ls) : j > i
    THEN CHOOSE j \in Headers(ls) : j > i /\ \A k \in Headers(ls) : k > i => j <= k
    ELSE Len(ls) + 1

\* the lines between header line i and the next header, joined
BlockText(ls, i) == Join(SubSeq(ls, i + 1, NextHeader(ls, i) - 1))

\* no later header line declares the name of header line i
LastOfName(ls, i) ==
    \A j \in Headers(ls) : j > i => HeaderName(ls[j]) # HeaderName(ls[i])

\* C9, as claimed: the scanner's mapping has exactly the names of the
\* header lines as keys and maps the name of every header line to the
\* lines between that header and the next one, joined with a newline.
C9_EveryHeaderKeepsItsBlock ==
    op = "Run" =>
       /\ DOMAIN scanned = {HeaderName(lines[i]) : i \in Headers(lines)}
       /\ \A i \in Headers(lines) :
             scanned[HeaderName(lines[i])] = BlockText(lines, i)

\* C9, amended: the scanner's mapping has exactly the names of the header
\* lines as keys and maps each name to the lines between the last header
\* line declaring it and the next header, joined with a newline; lines
\* before the first header are in no entry and a source without a header
\* gives the empty mapping.
C9_LastHeaderKeepsItsBlock ==
    op = "Run" =>
       /\ DOMAIN scanned = {HeaderName(lines[i]) : i \in Headers(lines)}
       /\ \A i \in Headers(lines) :
             LastOfName(lines, i) =>
                scanned[HeaderName(lines[i])] = BlockText(lines, i)

\* C9's case: a malformed header is content of the block of q1, and a
\* second block named q1 follows
C9_Witness ==
    /\ op = "Run"
    /\ lines = <<Header(<<"q", "1">>), <<"-", "-", " ", "n", "a", "m", "e", ":">>,
                 Header(<<"q", "1">>)>>
    /\ scanned = [n \in {<<"q", "1">>} |-> <<>>]

\* C4: a load that returns the already-exists error leaves the registry as
\* it was before the load.
C4_FailedLoadChangesNothing ==
    err = "exists" => queries = before

\* two header lines of ls declare the same name
DeclaredTwice(ls) ==
    \E i, j \in Headers(ls) : i # j /\ HeaderName(ls[i]) = HeaderName(ls[j])

\* a header line of ls declares a name the registry reg has
DeclaredBefore(ls, reg) ==
    \E i \in Headers(ls) : HeaderName(ls[i]) \in DOMAIN reg

\* C8: a load whose source was opened returns the already-exists error
\* whenever a name its source declares is in the registry or is declared
\* twice in the source, and no load replaces an entry of the registry.
C8_DuplicateNamesReported ==
    (op = "LoadFromFile" /\ err # "open") =>
       /\ (DeclaredBefore(lines, before) \/ DeclaredTwice(lines)) => err = "exists"
       /\ \A n \in DOMAIN before : n \in DOMAIN queries /\ queries[n] = before[n]

====
